---- MODULE Spec2Model ----
(***************************************************************************)
(* Model of the unified SFTP/FTP portal server (src/sftp-server.js): the   *)
(* session registry, the per-session operation queue (runSessionOp), the   *)
(* retry controller (ftpOpWithRetries) and the request handlers that use   *)
(* them.  Time is in milliseconds.                                         *)
(***************************************************************************)
EXTENDS Integers, Sequences, FiniteSets, TLC

\* ------------------------------------------------------------------ bounds
MaxConns == 2
MaxReqs == 2
MaxOps == 4
MaxAdvances == 2

\* ------------------------------------------------------- program constants
IdleLimitMs == 1800000
DefaultTimeoutMs == 120000
FallbackTimeoutMs == 120000
SftpDefaultPort == 22

Ids == 1..MaxConns
NeverIssued == 0
Undefined == -1
\* NaN lies outside every number the arithmetic of the model can produce
NaN == -999999

\* a request without a Range header (req.headers.range is falsy)
NoRange == <<>>
\* no response header has been set
NoHeaders == [status |-> 0, contentRange |-> <<>>, contentLength |-> 0]

VARIABLES
    sessions,   \* the registry Map: the set of session ids it holds
    sess,       \* session records by id: type, lastActivity, timeout
    handle,     \* backend client handle of each id: open, hasOn
    queue,      \* per session: the units chained on session._queue, oldest first
    conns,      \* connect requests, in arrival order
    reqs,       \* all other requests, in arrival order
    nextId,     \* next fresh session id (uuidv4)
    now,        \* Date.now()
    advances,   \* number of clock advances so far
    exited      \* the process has called process.exit

vars == <<sessions, sess, handle, queue, conns, reqs, nextId, now, advances, exited>>

\* ---------------------------------------------------------------- helpers
\* Number(port): an omitted port converts to NaN
NumberOf(port) == IF port = Undefined THEN NaN ELSE port

\* a request other than connect: the handler's position (pc), the unit it awaits
\* (index in queue[sid]), what its await produced (got) and its response
NewReq(kind, sid) ==
    [kind |-> kind, sid |-> sid, pc |-> "await", unit |-> 0, status |-> 0,
     err |-> "none", got |-> "none", attempt |-> 0, retries |-> 0,
     stream |-> "none", resClosed |-> FALSE, tmp |-> FALSE, range |-> NoRange,
     size |-> 0, hdr |-> NoHeaders, span |-> <<>>, tree |-> 0, listed |-> <<>>,
     cur |-> <<>>, work |-> <<>>, files |-> <<>>, delays |-> <<>>]

\* ------------------------------------------- promises of runSessionOp
\* timeoutMs of runSessionOp: opTimeout when a number, else session.timeout,
\* else 120000
TimeoutMs(opTimeout, sessionTimeout) ==
    IF opTimeout # Undefined THEN opTimeout
    ELSE IF sessionTimeout # 0 THEN sessionTimeout ELSE FallbackTimeoutMs

\* one call of runSessionOp: opPromise (prom, res), the state of fn (fn, fnRes)
\* and the timer of withTimeout (startedAt, timeoutMs)
NewUnit(r, op, timeoutMs) ==
    [req |-> r, op |-> op, prom |-> "pending", res |-> "none",
     fn |-> "notrun", fnRes |-> "none", startedAt |-> Undefined, timeoutMs |-> timeoutMs]

TailStateNoCatch(u) == u.prom

\* session._queue after the call: opPromise.catch(...), which swallows a
\* rejection, so it is fulfilled as soon as opPromise has settled either way
TailState(u) == IF u.prom = "pending" THEN "pending" ELSE "fulfilled"

PrevTailResolved(s, i) == "fulfilled"

\* the state of prev, the tail the unit at index i was chained on
PrevTail(s, i) == IF i = 1 THEN "fulfilled" ELSE TailState(queue[s][i - 1])

ReturnedTail(u) == [state |-> TailState(u), res |-> "none"]

\* what runSessionOp returns to its caller: opPromise itself
ReturnedPromise(u) == [state |-> u.prom, res |-> u.res]

\* await of the promise runSessionOp returned, once it has settled
Awaited(r) == ReturnedPromise(queue[reqs[r].sid][reqs[r].unit])

Settled(r) == reqs[r].unit # 0 /\ Awaited(r).state # "pending"

\* ----------------------------------------------------------- event loop
\* Promise reactions are microtasks: they all run before the next timer, I/O
\* completion or request is handled.  The continuation of a caller awaiting a
\* settled opPromise was registered before the next unit's callback can be
\* queued, so it runs first.
ContinuationPending ==
    \E r \in 1..Len(reqs) : reqs[r].pc \in {"await", "stat", "transfer"} /\ Settled(r)

StartPending ==
    \E s \in Ids : \E i \in 1..Len(queue[s]) :
        queue[s][i].prom = "pending" /\ queue[s][i].fn = "notrun" /\ PrevTail(s, i) # "pending"

\* a timer, an I/O completion or a new request is handled only between turns
MacrotaskReady == ~exited /\ ~ContinuationPending /\ ~StartPending

\* ------------------------------------------------------------- the session
NoSession == [type |-> "none", lastActivity |-> 0, timeout |-> 0, stored |-> {}]

\* a client handle: client names the client object (0: none), closeCalled
\* tells whether end()/close() has been invoked on it
NoHandle == [open |-> FALSE, hasOn |-> FALSE, closeCalled |-> FALSE, client |-> 0]

\* session.client.end() / session.client.close()
CloseHandle(h) == [h EXCEPT !.open = FALSE, !.closeCalled = TRUE]

\* a close that throws: it was invoked, the handle is left as it was
CloseThrows(h) == [h EXCEPT !.closeCalled = TRUE]

\* the options connect passes to createSession: the FTP calls also pass
\* password and port
CreateSessionOptions(type) ==
    IF type = "ftp"
    THEN {"type", "client", "server", "username", "password", "port", "isAdmin"}
    ELSE {"type", "client", "server", "username", "isAdmin"}

\* the properties of the session object createSession builds
SessionFields == {"type", "client", "server", "username", "isAdmin", "lastActivity", "timeout"}

SessionRecordKeepsCredentials(type, timeout) ==
    [type |-> type, lastActivity |-> now,
     timeout |-> IF timeout = Undefined THEN DefaultTimeoutMs ELSE timeout,
     stored |-> SessionFields \cup CreateSessionOptions(type)]

\* createSession: the record stored in the registry; timeout defaults to 120000
\* and no password or port is kept
SessionRecord(type, timeout) ==
    [type |-> type, lastActivity |-> now,
     timeout |-> IF timeout = Undefined THEN DefaultTimeoutMs ELSE timeout,
     stored |-> SessionFields]

\* the client of the successful probe of the request that generated id
createSession(id, type, hasOn) ==
    /\ sess' = [sess EXCEPT ![id] = SessionRecord(type, Undefined)]
    /\ handle' = [handle EXCEPT ![id] = [open |-> TRUE, hasOn |-> hasOn,
                                         closeCalled |-> FALSE, client |-> id]]
    /\ sessions' = sessions \cup {id}

CleanupKeepsEntry(id) == sessions

\* cleanup(reason) of createSession: best-effort close, then delete this id
CleanupRegistry(id) == sessions \ {id}

cleanup(id) ==
    /\ handle' = [handle EXCEPT ![id] = CloseHandle(@)]
    /\ sessions' = CleanupRegistry(id)

\* the handle emits 'error', 'close' or 'end'; the handlers exist only when
\* client.on is a function, and stay attached after the session is gone
Signal(id, sig) ==
    /\ MacrotaskReady
    /\ sess[id].type # "none"
    /\ handle[id].hasOn
    /\ cleanup(id)
    /\ UNCHANGED <<sess, queue, conns, reqs, nextId, now, advances, exited>>

ExpiredAtLimit(id) == now - sess[id].lastActivity >= IdleLimitMs

\* the sweep's test of one session
Expired(id) == now - sess[id].lastActivity > IdleLimitMs

\* setInterval callback: close and delete every session idle for too long
Sweep ==
    LET gone == {id \in sessions : Expired(id)} IN
    /\ MacrotaskReady
    /\ sessions # {}
    /\ handle' = [id \in Ids |-> IF id \in gone THEN CloseHandle(handle[id]) ELSE handle[id]]
    /\ sessions' = sessions \ gone
    /\ UNCHANGED <<sess, queue, conns, reqs, nextId, now, advances, exited>>

DisconnectUnknownFails(sid) ==
    /\ MacrotaskReady
    /\ Len(reqs) < MaxReqs
    /\ IF sid \in sessions
       THEN /\ handle' = [handle EXCEPT ![sid] = CloseHandle(@)]
            /\ sessions' = sessions \ {sid}
       ELSE UNCHANGED <<handle, sessions>>
    /\ reqs' = Append(reqs, [NewReq("disconnect", sid) EXCEPT !.pc = "done",
                               !.status = IF sid \in sessions THEN 200 ELSE 404])
    /\ UNCHANGED <<sess, queue, conns, nextId, now, advances, exited>>

\* POST /api/sftp/disconnect: close and delete when present; always success
Disconnect(sid) ==
    /\ MacrotaskReady
    /\ Len(reqs) < MaxReqs
    /\ IF sid \in sessions
       THEN /\ handle' = [handle EXCEPT ![sid] = CloseHandle(@)]
            /\ sessions' = sessions \ {sid}
       ELSE UNCHANGED <<handle, sessions>>
    /\ reqs' = Append(reqs, [NewReq("disconnect", sid) EXCEPT !.pc = "done", !.status = 200])
    /\ UNCHANGED <<sess, queue, conns, nextId, now, advances, exited>>

SigtermStopsAtThrow(throwers) ==
    LET reached == {id \in sessions : \A t \in throwers : id <= t} IN
    /\ MacrotaskReady
    /\ throwers \subseteq sessions
    /\ handle' = [id \in Ids |-> IF id \in reached \cap throwers THEN CloseThrows(handle[id])
                                  ELSE IF id \in reached THEN CloseHandle(handle[id])
                                  ELSE handle[id]]
    /\ exited' = TRUE
    /\ UNCHANGED <<sessions, sess, queue, conns, reqs, nextId, now, advances>>

\* process.on('SIGTERM'): end()/close() every session of the registry, each in
\* its own try/catch, then process.exit(0).  throwers are the sessions whose
\* close throws
Sigterm(throwers) ==
    /\ MacrotaskReady
    /\ throwers \subseteq sessions
    /\ handle' = [id \in Ids |-> IF id \in throwers THEN CloseThrows(handle[id])
                                  ELSE IF id \in sessions THEN CloseHandle(handle[id])
                                  ELSE handle[id]]
    /\ exited' = TRUE
    /\ UNCHANGED <<sessions, sess, queue, conns, reqs, nextId, now, advances>>

\* --------------------------------------------------- the operation queue
runSessionOpAtHead(sid, r, op, opTimeout) ==
    /\ sid \in sessions
    /\ Len(queue[sid]) < MaxOps
    /\ queue' = [queue EXCEPT ![sid] =
                    Append(@, [NewUnit(r, op, TimeoutMs(opTimeout, sess[sid].timeout))
                                 EXCEPT !.fn = "running", !.startedAt = now])]

\* runSessionOp on a session that is in the registry: chain a unit on the tail
runSessionOp(sid, r, op, opTimeout) ==
    /\ sid \in sessions
    /\ Len(queue[sid]) < MaxOps
    /\ queue' = [queue EXCEPT ![sid] =
                    Append(@, NewUnit(r, op, TimeoutMs(opTimeout, sess[sid].timeout)))]

\* the callback of prev.then: runs once prev is fulfilled, refreshes
\* lastActivity and calls fn(session) under withTimeout; a rejected prev would
\* reject opPromise with prev's reason without calling fn
UnitStart(s, i) ==
    /\ ~ContinuationPending
    /\ i \in 1..Len(queue[s])
    /\ queue[s][i].prom = "pending"
    /\ queue[s][i].fn = "notrun"
    /\ PrevTail(s, i) # "pending"
    /\ IF PrevTail(s, i) = "fulfilled"
       THEN /\ queue' = [queue EXCEPT ![s][i].fn = "running", ![s][i].startedAt = now]
            /\ sess' = [sess EXCEPT ![s].lastActivity = now]
       ELSE /\ queue' = [queue EXCEPT ![s][i].fn = "skipped", ![s][i].prom = "rejected",
                                      ![s][i].res = queue[s][i - 1].res]
            /\ UNCHANGED sess
    /\ UNCHANGED <<sessions, handle, conns, reqs, nextId, now, advances, exited>>

\* fn(session) settles with a value or an error; opPromise follows it unless
\* the timeout has already rejected it
FnOutcomes == {"value", "Efatal", "Etransient"}

FnFinish(s, i, out) ==
    /\ MacrotaskReady
    /\ i \in 1..Len(queue[s])
    /\ queue[s][i].fn = "running"
    /\ queue' = [queue EXCEPT
                    ![s][i].fn = IF out = "value" THEN "ok" ELSE "err",
                    ![s][i].fnRes = out,
                    ![s][i].prom = IF @ # "pending" THEN @
                                   ELSE IF out = "value" THEN "fulfilled" ELSE "rejected",
                    ![s][i].res = IF queue[s][i].prom # "pending" THEN @ ELSE out]
    /\ UNCHANGED <<sessions, sess, handle, conns, reqs, nextId, now, advances, exited>>

TimerDueNever(u) == FALSE

\* the timer of withTimeout fires before fn has settled: opPromise rejects,
\* fn itself is not cancelled
TimerDue(u) == u.fn = "running" /\ u.prom = "pending" /\ now >= u.startedAt + u.timeoutMs

TimeoutFire(s, i) ==
    /\ MacrotaskReady
    /\ i \in 1..Len(queue[s])
    /\ TimerDue(queue[s][i])
    /\ queue' = [queue EXCEPT ![s][i].prom = "rejected", ![s][i].res = "Eoptimeout"]
    /\ UNCHANGED <<sessions, sess, handle, conns, reqs, nextId, now, advances, exited>>

\* time passes; a timer that is due fires before time moves on
AdvanceSteps == {DefaultTimeoutMs, IdleLimitMs}

Advance(d) ==
    /\ MacrotaskReady
    /\ advances < MaxAdvances
    /\ \A s \in Ids : \A i \in 1..Len(queue[s]) :
          (queue[s][i].fn = "running" /\ queue[s][i].prom = "pending")
              => now + d <= queue[s][i].startedAt + queue[s][i].timeoutMs
    /\ now' = now + d
    /\ advances' = advances + 1
    /\ UNCHANGED <<sessions, sess, handle, queue, conns, reqs, nextId, exited>>

\* ------------------------------------------------- POST /api/sftp/connect
Protocols == {"ftp", "sftp", "auto"}
PortInputs == {Undefined, 21, 22}
ProbeErrors == {"ErrBanner", "ErrOther"}

\* sres.error includes 'Expected SSH banner' or 'Unsupported protocol'
IndicatesNonSsh(e) == e = "ErrBanner"

\* the auto-detect test for trying FTP after the SFTP probe failed
FallbackToFtp(e, port) ==
    e # "none" /\ (IndicatesNonSsh(e) \/ NumberOf(port) # SftpDefaultPort)

NewConn(proto, port, id) ==
    [proto |-> proto, port |-> port, id |-> id, pc |-> "done", status |-> 0,
     err |-> "none", probes |-> <<>>]

\* a request without server or username: 400 before any id is generated
ConnectBadRequest ==
    /\ MacrotaskReady
    /\ Len(conns) < MaxConns
    /\ conns' = Append(conns, [NewConn("auto", Undefined, NeverIssued) EXCEPT !.status = 400])
    /\ UNCHANGED <<sessions, sess, handle, queue, reqs, nextId, now, advances, exited>>

\* a well-formed request: the session id is generated, then the first probe starts
ConnectBegin(proto, port) ==
    /\ MacrotaskReady
    /\ Len(conns) < MaxConns
    /\ nextId \in Ids
    /\ conns' = Append(conns, [NewConn(proto, port, nextId) EXCEPT
                                 !.pc = IF proto = "ftp" THEN "probe_ftp" ELSE "probe_sftp"])
    /\ nextId' = nextId + 1
    /\ UNCHANGED <<sessions, sess, handle, queue, reqs, now, advances, exited>>

ProbeRecordLeftOpen(type, ok, e) ==
    [proto |-> type, ok |-> ok, err |-> IF ok THEN "none" ELSE e, closed |-> FALSE]

\* what testSftpConnection / testFtpConnection leaves behind: on success the
\* client stays open for the session; on failure the catch closes the client
\* (sftp.end() awaited, client.close()) before the error is returned
ProbeRecord(type, ok, e) ==
    [proto |-> type, ok |-> ok, err |-> IF ok THEN "none" ELSE e, closed |-> ~ok]

TriesFtpNextAnyProtocol(cn, e) ==
    cn.pc = "probe_sftp" /\ FallbackToFtp(e, cn.port)

\* a failed probe is followed by an FTP probe only on the auto-detect branch
TriesFtpNext(cn, e) ==
    cn.pc = "probe_sftp" /\ cn.proto = "auto" /\ FallbackToFtp(e, cn.port)

\* testSftpConnection / testFtpConnection returns; on success the session is
\* created around the probe's client, which stays open
ProbeFinish(c, ok, e, hasOn) ==
    /\ MacrotaskReady
    /\ c \in 1..Len(conns)
    /\ conns[c].pc \in {"probe_sftp", "probe_ftp"}
    /\ LET cn == conns[c]
           type == IF cn.pc = "probe_sftp" THEN "sftp" ELSE "ftp"
           probed == [cn EXCEPT !.probes = Append(@, ProbeRecord(type, ok, e))]
       IN  IF ok
           THEN /\ createSession(cn.id, type, hasOn)
                /\ conns' = [conns EXCEPT ![c] = [probed EXCEPT !.pc = "initlist"]]
           ELSE /\ conns' = [conns EXCEPT ![c] =
                      IF TriesFtpNext(cn, e)
                      THEN [probed EXCEPT !.pc = "probe_ftp"]
                      ELSE [probed EXCEPT !.pc = "done", !.status = 502, !.err = e]]
                /\ UNCHANGED <<sessions, sess, handle>>
    /\ UNCHANGED <<queue, reqs, nextId, now, advances, exited>>

\* the initial client.list(remotePath || '/') returns or throws; a throw goes to
\* the catch, which answers 500 and leaves the registry as it is
InitialListFinish(c, ok) ==
    /\ MacrotaskReady
    /\ c \in 1..Len(conns)
    /\ conns[c].pc = "initlist"
    /\ conns' = [conns EXCEPT ![c].pc = "done",
                              ![c].status = IF ok THEN 200 ELSE 500,
                              ![c].err = IF ok THEN "none" ELSE "Elist"]
    /\ UNCHANGED <<sessions, sess, handle, queue, reqs, nextId, now, advances, exited>>

\* the session ids clients hold: those returned in a success response
Known == {conns[c].id : c \in {i \in 1..Len(conns) : conns[i].status = 200}}

\* the ids a request can carry: a known one, or one that was never issued
Targets == Known \cup {NeverIssued}

\* ------------------------------------------------------ request handlers
\* the request a new handler invocation gets, and the unit its call of
\* runSessionOp chains
NextReq == Len(reqs) + 1
NextUnit(sid) == Len(queue[sid]) + 1

\* the response to a request whose session id is not in the registry
Expired404(kind, sid) ==
    [NewReq(kind, sid) EXCEPT !.pc = "done", !.status = 404, !.err = "Session expired"]

\* res.json({success}) after the await, or the catch's res.status(500)
Respond(rq, p) ==
    [rq EXCEPT !.pc = "done", !.got = p.res,
               !.status = IF p.state = "fulfilled" THEN 200 ELSE 500,
               !.err = IF p.state = "fulfilled" THEN "none" ELSE p.res]

\* GET /api/sftp/list
ListBegin(sid) ==
    /\ MacrotaskReady
    /\ Len(reqs) < MaxReqs
    /\ IF sid \notin sessions
       THEN /\ reqs' = Append(reqs, Expired404("list", sid))
            /\ UNCHANGED queue
       ELSE /\ runSessionOp(sid, NextReq, "list", Undefined)
            /\ reqs' = Append(reqs, [NewReq("list", sid) EXCEPT !.unit = NextUnit(sid)])
    /\ UNCHANGED <<sessions, sess, handle, conns, nextId, now, advances, exited>>

ListFinish(r) ==
    /\ r \in 1..Len(reqs)
    /\ reqs[r].kind = "list" /\ reqs[r].pc = "await" /\ Settled(r)
    /\ reqs' = [reqs EXCEPT ![r] = Respond(@, Awaited(r))]
    /\ UNCHANGED <<sessions, sess, handle, queue, conns, nextId, now, advances, exited>>

\* POST /api/sftp/delete
DeleteBegin(sid) ==
    /\ MacrotaskReady
    /\ Len(reqs) < MaxReqs
    /\ IF sid \notin sessions
       THEN /\ reqs' = Append(reqs, Expired404("delete", sid))
            /\ UNCHANGED queue
       ELSE /\ runSessionOp(sid, NextReq, "delete", Undefined)
            /\ reqs' = Append(reqs, [NewReq("delete", sid) EXCEPT !.unit = NextUnit(sid)])
    /\ UNCHANGED <<sessions, sess, handle, conns, nextId, now, advances, exited>>

DeleteFinish(r) ==
    /\ r \in 1..Len(reqs)
    /\ reqs[r].kind = "delete" /\ reqs[r].pc = "await" /\ Settled(r)
    /\ reqs' = [reqs EXCEPT ![r] = Respond(@, Awaited(r))]
    /\ UNCHANGED <<sessions, sess, handle, queue, conns, nextId, now, advances, exited>>

\* POST /api/sftp/upload: multer has written the temporary file (tmp) when the
\* request carries one; an unknown session or a missing file answers 400
\* 'Invalid request' at once
UploadBegin(sid, hasFile) ==
    /\ MacrotaskReady
    /\ Len(reqs) < MaxReqs
    /\ IF sid \notin sessions \/ ~hasFile
       THEN /\ reqs' = Append(reqs, [NewReq("upload", sid) EXCEPT !.pc = "done",
                                       !.status = 400, !.err = "Invalid request",
                                       !.tmp = hasFile])
            /\ UNCHANGED queue
       ELSE /\ runSessionOp(sid, NextReq, "put", Undefined)
            /\ reqs' = Append(reqs, [NewReq("upload", sid) EXCEPT !.unit = NextUnit(sid),
                                                                  !.tmp = TRUE])
    /\ UNCHANGED <<sessions, sess, handle, conns, nextId, now, advances, exited>>

\* fs.unlinkSync after the await, in the try and in the catch
UploadFinish(r) ==
    /\ r \in 1..Len(reqs)
    /\ reqs[r].kind = "upload" /\ reqs[r].pc = "await" /\ Settled(r)
    /\ reqs' = [reqs EXCEPT ![r] = [Respond(@, Awaited(r)) EXCEPT !.tmp = FALSE]]
    /\ UNCHANGED <<sessions, sess, handle, queue, conns, nextId, now, advances, exited>>

\* ---- the Range header.  A header is a sequence of characters, with the unit
\* prefix 'bytes=' as one element
MaxRangeLen == 3
RangeChars == {"0", "1", "2", "-", "x"}
DigitChars == <<"0", "1", "2", "3", "4", "5", "6", "7", "8", "9">>

\* the sizes of the remote files requested
FileSizes == {3, 12}

RangeTails == UNION {[1..n -> RangeChars] : n \in 1..MaxRangeLen}
RangeInputs == {NoRange} \cup {<<"bytes=">> \o t : t \in RangeTails}

IsDigit(ch) == \E d \in 1..10 : DigitChars[d] = ch
DigitValue(ch) == (CHOOSE d \in 1..10 : DigitChars[d] = ch) - 1

\* the first index of ch in cs, 0 when absent
RECURSIVE IndexOf(_, _, _)
IndexOf(cs, ch, from) ==
    IF from > Len(cs) THEN 0
    ELSE IF cs[from] = ch THEN from ELSE IndexOf(cs, ch, from + 1)

\* range.replace(/bytes=/, ""): the first occurrence is removed
RemoveFirst(cs, tok) ==
    LET k == IndexOf(cs, tok, 1) IN
    IF k = 0 THEN cs ELSE SubSeq(cs, 1, k - 1) \o SubSeq(cs, k + 1, Len(cs))

\* String.prototype.split("-")
RECURSIVE SplitDash(_)
SplitDash(cs) ==
    LET k == IndexOf(cs, "-", 1) IN
    IF k = 0 THEN <<cs>>
    ELSE <<SubSeq(cs, 1, k - 1)>> \o SplitDash(SubSeq(cs, k + 1, Len(cs)))

\* parseInt(str, 10): the value of the leading run of digits, NaN without one
RECURSIVE DigitRun(_)
DigitRun(cs) ==
    IF cs = <<>> \/ ~IsDigit(Head(cs)) THEN <<>> ELSE <<Head(cs)>> \o DigitRun(Tail(cs))

RECURSIVE Decimal(_)
Decimal(ds) ==
    IF ds = <<>> THEN 0
    ELSE Decimal(SubSeq(ds, 1, Len(ds) - 1)) * 10 + DigitValue(ds[Len(ds)])

ParseInt(cs) == IF DigitRun(cs) = <<>> THEN NaN ELSE Decimal(DigitRun(cs))

\* const start = parseInt(parts[0], 10)
RangeStart(range) == ParseInt(SplitDash(RemoveFirst(range, "bytes="))[1])

\* const end = parts[1] ? parseInt(parts[1], 10) : fileSize - 1
RangeEnd(range, fileSize) ==
    LET parts == SplitDash(RemoveFirst(range, "bytes=")) IN
    IF Len(parts) >= 2 /\ parts[2] # <<>> THEN ParseInt(parts[2]) ELSE fileSize - 1

ChunkSizeExclusive(start, end) ==
    IF start = NaN \/ end = NaN THEN NaN ELSE end - start

\* const chunksize = (end - start) + 1, NaN when either operand is NaN
ChunkSize(start, end) ==
    IF start = NaN \/ end = NaN THEN NaN ELSE (end - start) + 1

\* the status and headers the handler sets once it knows fileSize
SetHeaders(range, fileSize) ==
    IF range # NoRange
    THEN [status |-> 206,
          contentRange |-> <<RangeStart(range), RangeEnd(range, fileSize), fileSize>>,
          contentLength |-> ChunkSize(RangeStart(range), RangeEnd(range, fileSize))]
    ELSE [status |-> 200, contentRange |-> <<>>, contentLength |-> fileSize]

\* createReadStream(remotePath, {start, end}) is given an ordinary byte range
\* (or none); what the library does with any other pair is not in this source
StreamArgsOrdinary(range, fileSize) ==
    \/ range = NoRange
    \/ /\ RangeStart(range) # NaN /\ RangeEnd(range, fileSize) # NaN
       /\ RangeStart(range) <= RangeEnd(range, fileSize)

\* the bytes asked of the backend, as <<first, last>>: createReadStream is
\* given {start, end}, downloadTo only the offset start and so reads to the end
\* of the file; without a Range header both read the whole file
BackendSpan(type, range, fileSize) ==
    IF range = NoRange THEN <<0, fileSize - 1>>
    ELSE IF type = "sftp" THEN <<RangeStart(range), RangeEnd(range, fileSize)>>
    ELSE <<RangeStart(range), fileSize - 1>>

\* GET /api/sftp/download: the size lookup is queued; range is the Range
\* header of the request and size the size of the file it names
DownloadBegin(sid, range, size) ==
    /\ MacrotaskReady
    /\ Len(reqs) < MaxReqs
    /\ IF sid \notin sessions
       THEN /\ reqs' = Append(reqs, Expired404("download", sid))
            /\ UNCHANGED queue
       ELSE /\ runSessionOp(sid, NextReq, "stat", Undefined)
            /\ reqs' = Append(reqs, [NewReq("download", sid) EXCEPT !.unit = NextUnit(sid),
                                        !.pc = "stat", !.range = range, !.size = size])
    /\ UNCHANGED <<sessions, sess, handle, conns, nextId, now, advances, exited>>

\* after the size lookup the headers are set; then an SFTP session opens the
\* read stream directly on session.client and pipes it, an FTP session queues
\* the whole transfer.  thrown: createReadStream throws synchronously, which
\* the catch answers with 500 as no header has been sent
DownloadAfterStat(r, thrown) ==
    /\ r \in 1..Len(reqs)
    /\ reqs[r].kind = "download" /\ reqs[r].pc = "stat" /\ Settled(r)
    /\ LET rq == reqs[r]
           sid == rq.sid
           p == Awaited(r)
           hdr == SetHeaders(rq.range, rq.size)
       IN  /\ thrown => /\ p.state = "fulfilled" /\ sess[sid].type = "sftp"
                        /\ ~StreamArgsOrdinary(rq.range, rq.size)
           /\ IF p.state = "rejected"
              THEN /\ reqs' = [reqs EXCEPT ![r] = Respond(rq, p)]
                   /\ UNCHANGED <<queue, sess>>
              ELSE IF sess[sid].type = "sftp"
              THEN /\ sess' = [sess EXCEPT ![sid].lastActivity = now]
                   /\ reqs' = [reqs EXCEPT ![r] =
                         IF thrown
                         THEN [rq EXCEPT !.pc = "done", !.got = p.res, !.hdr = hdr,
                                         !.status = 500, !.err = "Estream"]
                         ELSE [rq EXCEPT !.pc = "stream", !.got = p.res, !.hdr = hdr,
                                         !.status = hdr.status, !.stream = "open",
                                         !.span = BackendSpan("sftp", rq.range, rq.size)]]
                   /\ UNCHANGED queue
              ELSE IF sid \notin sessions
              THEN /\ reqs' = [reqs EXCEPT ![r] = [rq EXCEPT !.pc = "done", !.got = p.res,
                                     !.hdr = hdr, !.status = 500, !.err = "Session expired"]]
                   /\ UNCHANGED <<queue, sess>>
              ELSE /\ runSessionOp(sid, r, "transfer", Undefined)
                   /\ reqs' = [reqs EXCEPT ![r] = [rq EXCEPT !.pc = "transfer", !.got = p.res,
                                     !.hdr = hdr, !.status = hdr.status, !.unit = NextUnit(sid),
                                     !.span = BackendSpan("ftp", rq.range, rq.size)]]
                   /\ UNCHANGED sess
    /\ UNCHANGED <<sessions, handle, conns, nextId, now, advances, exited>>

\* the queued FTP transfer settles; a failure answers 500 while no byte was sent
DownloadFtpFinish(r) ==
    /\ r \in 1..Len(reqs)
    /\ reqs[r].kind = "download" /\ reqs[r].pc = "transfer" /\ Settled(r)
    /\ LET p == Awaited(r) IN
       reqs' = [reqs EXCEPT ![r] = [@ EXCEPT !.pc = "done",
                   !.status = IF p.state = "fulfilled" THEN @ ELSE 500,
                   !.err = IF p.state = "fulfilled" THEN "none" ELSE p.res]]
    /\ UNCHANGED <<sessions, sess, handle, queue, conns, nextId, now, advances, exited>>

\* res 'close': the client went away; the handler destroys sftpReadStream if it
\* has been assigned by then
ResClose(r) ==
    /\ MacrotaskReady
    /\ r \in 1..Len(reqs)
    /\ reqs[r].kind = "download" /\ reqs[r].pc \in {"stat", "stream", "transfer"}
    /\ ~reqs[r].resClosed
    /\ reqs' = [reqs EXCEPT ![r].resClosed = TRUE,
                            ![r].stream = IF @ = "open" THEN "destroyed" ELSE @,
                            ![r].pc = IF @ = "stream" THEN "done" ELSE @]
    /\ UNCHANGED <<sessions, sess, handle, queue, conns, nextId, now, advances, exited>>

\* the piped SFTP read stream reaches its end while the response is open
StreamEnd(r) ==
    /\ MacrotaskReady
    /\ r \in 1..Len(reqs)
    /\ reqs[r].kind = "download" /\ reqs[r].pc = "stream"
    /\ reqs[r].stream = "open" /\ ~reqs[r].resClosed
    /\ reqs' = [reqs EXCEPT ![r].stream = "ended", ![r].pc = "done"]
    /\ UNCHANGED <<sessions, sess, handle, queue, conns, nextId, now, advances, exited>>

\* GET /api/sftp/list-recursive.  Paths are sequences of names.  The remote
\* trees client.list answers from:
\*   tree 1:  /a/b/f3  /a/f2  /f1          (nested directories first)
\*   tree 2:  /f1  /d (empty)  /e/f2       (a file first, an empty directory)
RootPath == <<>>
TreeIds == {1, 2}

DirEntries(t, p) ==
    IF t = 1 THEN
        IF p = RootPath THEN <<[name |-> "a", dir |-> TRUE], [name |-> "f1", dir |-> FALSE]>>
        ELSE IF p = <<"a">> THEN <<[name |-> "b", dir |-> TRUE], [name |-> "f2", dir |-> FALSE]>>
        ELSE IF p = <<"a", "b">> THEN <<[name |-> "f3", dir |-> FALSE]>>
        ELSE <<>>
    ELSE
        IF p = RootPath THEN <<[name |-> "f1", dir |-> FALSE], [name |-> "d", dir |-> TRUE],
                               [name |-> "e", dir |-> TRUE]>>
        ELSE IF p = <<"e">> THEN <<[name |-> "f2", dir |-> FALSE]>>
        ELSE <<>>

PosixJoinNameOnly(p, name) == <<name>>

\* path.posix.join(currentPath, item.name)
PosixJoin(p, name) == Append(p, name)

\* the items of one listing, each with its joined path, in listing order
Items(t, p) == [i \in 1..Len(DirEntries(t, p)) |->
                   [name |-> DirEntries(t, p)[i].name, dir |-> DirEntries(t, p)[i].dir,
                    path |-> PosixJoin(p, DirEntries(t, p)[i].name)]]

\* the loop over items up to the next directory: every file met is pushed on
\* fileList; the result is <<items still to visit, fileList>>
RECURSIVE Drain(_, _)
Drain(work, files) ==
    IF work = <<>> \/ Head(work).dir THEN <<work, files>>
    ELSE Drain(Tail(work), Append(files, [name |-> Head(work).name, isDirectory |-> FALSE,
                                          path |-> Head(work).path]))

ListRecursiveBegin(sid, t) ==
    /\ MacrotaskReady
    /\ Len(reqs) < MaxReqs
    /\ IF sid \notin sessions
       THEN /\ reqs' = Append(reqs, Expired404("listrec", sid))
            /\ UNCHANGED queue
       ELSE /\ runSessionOp(sid, NextReq, "list", Undefined)
            /\ reqs' = Append(reqs, [NewReq("listrec", sid) EXCEPT !.unit = NextUnit(sid),
                                        !.tree = t, !.cur = RootPath, !.listed = <<RootPath>>])
    /\ UNCHANGED <<sessions, sess, handle, conns, nextId, now, advances, exited>>

\* one listing has settled: push the files, descend into the next directory
\* with a new queued list, or answer when nothing is left
ListRecursiveStep(r) ==
    /\ r \in 1..Len(reqs)
    /\ reqs[r].kind = "listrec" /\ reqs[r].pc = "await" /\ Settled(r)
    /\ LET rq == reqs[r]
           sid == rq.sid
           p == Awaited(r)
           d == Drain(Items(rq.tree, rq.cur) \o rq.work, rq.files)
       IN  IF p.state = "rejected"
           THEN /\ reqs' = [reqs EXCEPT ![r] = Respond(rq, p)]
                /\ UNCHANGED queue
           ELSE IF d[1] = <<>>
           THEN /\ reqs' = [reqs EXCEPT ![r] = [Respond(rq, p) EXCEPT !.work = <<>>,
                                                                      !.files = d[2]]]
                /\ UNCHANGED queue
           ELSE IF sid \notin sessions
           THEN /\ reqs' = [reqs EXCEPT ![r] = [rq EXCEPT !.pc = "done", !.status = 500,
                                   !.err = "Session expired", !.work = d[1], !.files = d[2]]]
                /\ UNCHANGED queue
           ELSE /\ runSessionOp(sid, r, "list", Undefined)
                /\ reqs' = [reqs EXCEPT ![r] = [rq EXCEPT !.unit = NextUnit(sid),
                                   !.cur = Head(d[1]).path, !.work = Tail(d[1]),
                                   !.files = d[2], !.listed = Append(@, Head(d[1]).path)]]
    /\ UNCHANGED <<sessions, sess, handle, conns, nextId, now, advances, exited>>

\* ------------------------------------------------------ ftpOpWithRetries
BaseDelayMs == 2000
RetriesInputs == {1, 2}
\* { retries = 3, baseDelay = 2000 } = {}
DefaultRetries == 3

\* the isTransient test on the error message; the queue's own timeout message
\* ('Session operation timed out after ...') matches /timed out/i
IsTransient(e) == e \in {"Etransient", "Eoptimeout"}

BackoffDelayFlat(attempt) == BaseDelayMs

\* the wait before the next attempt: baseDelay * (attempt + 1)
BackoffDelay(attempt) == BaseDelayMs * (attempt + 1)

ClientGoneNever(sid) == FALSE

\* !session || !session.client, after a failed attempt
ClientGone(sid) == sid \notin sessions

AttemptsRemainInclusive(rq) == rq.attempt <= rq.retries

\* attempt < retries
AttemptsRemain(rq) == rq.attempt < rq.retries

\* attempt 0: runSessionOp throws at once when the session is not registered
RetryBegin(sid, retries) ==
    /\ MacrotaskReady
    /\ Len(reqs) < MaxReqs
    /\ IF sid \notin sessions
       THEN /\ reqs' = Append(reqs, [NewReq("retry", sid) EXCEPT !.pc = "done",
                                       !.retries = retries, !.err = "Session expired",
                                       !.got = "Session expired"])
            /\ UNCHANGED queue
       ELSE /\ runSessionOp(sid, NextReq, "op", Undefined)
            /\ reqs' = Append(reqs, [NewReq("retry", sid) EXCEPT !.unit = NextUnit(sid),
                                                                 !.retries = retries])
    /\ UNCHANGED <<sessions, sess, handle, conns, nextId, now, advances, exited>>

\* the awaited attempt settles: return its value, or in the catch decide
\* between backing off and throwing lastErr
RetryAfterAttempt(r) ==
    /\ r \in 1..Len(reqs)
    /\ reqs[r].kind = "retry" /\ reqs[r].pc = "await" /\ Settled(r)
    /\ LET rq == reqs[r]
           p == Awaited(r)
       IN  reqs' = [reqs EXCEPT ![r] =
             IF p.state = "fulfilled"
             THEN [rq EXCEPT !.pc = "done", !.got = p.res]
             ELSE IF ~ClientGone(rq.sid) /\ IsTransient(p.res) /\ AttemptsRemain(rq)
             THEN [rq EXCEPT !.pc = "backoff", !.got = p.res,
                             !.delays = Append(@, BackoffDelay(rq.attempt))]
             ELSE [rq EXCEPT !.pc = "done", !.got = p.res, !.err = p.res]]
    /\ UNCHANGED <<sessions, sess, handle, queue, conns, nextId, now, advances, exited>>

\* the backoff timer has fired: the next attempt is a new call of runSessionOp
RetryBackoffDone(r) ==
    /\ MacrotaskReady
    /\ r \in 1..Len(reqs)
    /\ reqs[r].kind = "retry" /\ reqs[r].pc = "backoff"
    /\ LET rq == reqs[r]
           sid == rq.sid
       IN  IF sid \notin sessions
           THEN /\ reqs' = [reqs EXCEPT ![r] = [rq EXCEPT !.pc = "done",
                                   !.attempt = @ + 1, !.err = "Session expired",
                                   !.got = "Session expired"]]
                /\ UNCHANGED queue
           ELSE /\ runSessionOp(sid, r, "op", Undefined)
                /\ reqs' = [reqs EXCEPT ![r] = [rq EXCEPT !.pc = "await",
                                   !.attempt = @ + 1, !.unit = NextUnit(sid)]]
    /\ UNCHANGED <<sessions, sess, handle, conns, nextId, now, advances, exited>>

\* ---------------------------------------------------------- specification
Init ==
    /\ sessions = {}
    /\ sess = [id \in Ids |-> NoSession]
    /\ handle = [id \in Ids |-> NoHandle]
    /\ queue = [id \in Ids |-> <<>>]
    /\ conns = <<>>
    /\ reqs = <<>>
    /\ nextId = 1
    /\ now = 0
    /\ advances = 0
    /\ exited = FALSE

\* the steps of the parts of the system
ConnectStep ==
    \/ ConnectBadRequest
    \/ \E proto \in Protocols, port \in PortInputs : ConnectBegin(proto, port)
    \/ \E c \in 1..MaxConns, ok \in BOOLEAN, e \in ProbeErrors, hasOn \in BOOLEAN :
          ProbeFinish(c, ok, e, hasOn)
    \/ \E c \in 1..MaxConns, ok \in BOOLEAN : InitialListFinish(c, ok)

\* connects that name their protocol and leave the port out
ExplicitConnectBegin == \E proto \in {"ftp", "sftp"} : ConnectBegin(proto, Undefined)

ExplicitConnectFinish ==
    \/ \E c \in 1..MaxConns, ok \in BOOLEAN, hasOn \in BOOLEAN :
          ProbeFinish(c, ok, "ErrOther", hasOn)
    \/ \E c \in 1..MaxConns, ok \in BOOLEAN : InitialListFinish(c, ok)

ExplicitConnectStep == ExplicitConnectBegin \/ ExplicitConnectFinish

EvictStep ==
    \/ \E id \in Ids, sig \in {"error", "close", "end"} : Signal(id, sig)
    \/ Sweep
    \/ \E sid \in Targets : Disconnect(sid)

QueueStep ==
    \/ \E s \in Ids, i \in 1..MaxOps : UnitStart(s, i)
    \/ \E s \in Ids, i \in 1..MaxOps, out \in FnOutcomes : FnFinish(s, i, out)
    \/ \E s \in Ids, i \in 1..MaxOps : TimeoutFire(s, i)

ListStep ==
    \/ \E sid \in Targets : ListBegin(sid)
    \/ \E r \in 1..MaxReqs : ListFinish(r)

DeleteStep ==
    \/ \E sid \in Targets : DeleteBegin(sid)
    \/ \E r \in 1..MaxReqs : DeleteFinish(r)

UploadStep ==
    \/ \E sid \in Targets, hasFile \in BOOLEAN : UploadBegin(sid, hasFile)
    \/ \E r \in 1..MaxReqs : UploadFinish(r)

\* a download once it has begun
DownloadProgress ==
    \/ \E r \in 1..MaxReqs, thrown \in BOOLEAN : DownloadAfterStat(r, thrown)
    \/ \E r \in 1..MaxReqs : DownloadFtpFinish(r)
    \/ \E r \in 1..MaxReqs : ResClose(r)
    \/ \E r \in 1..MaxReqs : StreamEnd(r)

DownloadStep ==
    \/ \E sid \in Targets, range \in RangeInputs, size \in FileSizes :
          DownloadBegin(sid, range, size)
    \/ DownloadProgress

\* downloads of one 3-byte file, whole or with a well-formed range
PlainDownloadStep ==
    \/ \E sid \in Targets, range \in {NoRange, <<"bytes=", "0", "-", "2">>} :
          DownloadBegin(sid, range, 3)
    \/ DownloadProgress

ListRecursiveStep_ ==
    \/ \E sid \in Targets, t \in TreeIds : ListRecursiveBegin(sid, t)
    \/ \E r \in 1..MaxReqs : ListRecursiveStep(r)

\* a call of ftpOpWithRetries once it has begun
RetryProgress ==
    \/ \E r \in 1..MaxReqs : RetryAfterAttempt(r)
    \/ \E r \in 1..MaxReqs : RetryBackoffDone(r)

RetryStep ==
    \/ \E sid \in Targets, retries \in RetriesInputs : RetryBegin(sid, retries)
    \/ RetryProgress

\* the whole server
Next ==
    \/ ConnectStep
    \/ EvictStep
    \/ QueueStep
    \/ \E d \in AdvanceSteps : Advance(d)
    \/ ListStep \/ DeleteStep \/ UploadStep \/ DownloadStep
    \/ ListRecursiveStep_ \/ RetryStep
    \/ \E throwers \in SUBSET Ids : Sigterm(throwers)

Spec == Init /\ [][Next]_vars

\* the registry: connects, evictions, the clock, and list requests that
\* refresh lastActivity
NextRegistry ==
    \/ ExplicitConnectStep
    \/ EvictStep
    \/ QueueStep
    \/ \E d \in AdvanceSteps : Advance(d)
    \/ ListStep

SpecRegistry == Init /\ [][NextRegistry]_vars

\* connect in full, with the evictions that need no clock
NextConnect ==
    \/ ConnectStep
    \/ \E id \in Ids, sig \in {"error", "close", "end"} : Signal(id, sig)
    \/ \E sid \in Targets : Disconnect(sid)

SpecConnect == Init /\ [][NextConnect]_vars

\* sessions come and go, and the process is told to terminate
NextShutdown ==
    \/ ExplicitConnectStep
    \/ \E id \in Ids, sig \in {"error", "close", "end"} : Signal(id, sig)
    \/ \E sid \in Targets : Disconnect(sid)
    \/ ListStep
    \/ \E s \in Ids, i \in 1..MaxOps : UnitStart(s, i)
    \/ \E s \in Ids, i \in 1..MaxOps, out \in FnOutcomes : FnFinish(s, i, out)
    \/ \E throwers \in SUBSET Ids : Sigterm(throwers)

SpecShutdown == Init /\ [][NextShutdown]_vars

\* the operation queue of one session under single-operation callers and the
\* retry controller
NextQueue ==
    \/ nextId = 1 /\ ExplicitConnectBegin
    \/ ExplicitConnectFinish
    \/ \E id \in Ids, sig \in {"error", "close", "end"} : Signal(id, sig)
    \/ QueueStep
    \/ Advance(DefaultTimeoutMs)
    \/ ListStep \/ DeleteStep \/ RetryStep

SpecQueue == Init /\ [][NextQueue]_vars

\* the queue of one session under list requests whose functions may never
\* return.  Promise reactions run, timers fire and time passes while an
\* operation is running; nothing is assumed about fn
QueueStartStep == \E s \in Ids, i \in 1..MaxOps : UnitStart(s, i)

TimeoutStep == \E s \in Ids, i \in 1..MaxOps : TimeoutFire(s, i)

ListFinishStep == \E r \in 1..MaxReqs : ListFinish(r)

ClockStep ==
    /\ \E s \in Ids : \E i \in 1..Len(queue[s]) :
          queue[s][i].fn = "running" /\ queue[s][i].prom = "pending"
    /\ Advance(DefaultTimeoutMs)

NextLive ==
    \/ nextId = 1 /\ ExplicitConnectBegin
    \/ ExplicitConnectFinish
    \/ QueueStartStep
    \/ \E s \in Ids, i \in 1..MaxOps, out \in FnOutcomes : FnFinish(s, i, out)
    \/ TimeoutStep
    \/ ClockStep
    \/ \E sid \in Targets : ListBegin(sid)
    \/ ListFinishStep

SpecLive ==
    /\ Init /\ [][NextLive]_vars
    /\ WF_vars(QueueStartStep) /\ WF_vars(ListFinishStep)
    /\ WF_vars(TimeoutStep) /\ WF_vars(ClockStep)

\* one call of ftpOpWithRetries with its default options on one session that
\* can be evicted, while time passes
NextRetry ==
    \/ nextId = 1 /\ ExplicitConnectBegin
    \/ ExplicitConnectFinish
    \/ \E id \in Ids, sig \in {"error", "close", "end"} : Signal(id, sig)
    \/ \E sid \in Targets : Disconnect(sid)
    \/ QueueStep
    \/ Advance(DefaultTimeoutMs)
    \/ \E sid \in Targets : RetryBegin(sid, DefaultRetries)
    \/ RetryProgress

SpecRetry == Init /\ [][NextRetry]_vars

\* every request handler on one session, without the clock
NextHandlers ==
    \/ nextId = 1 /\ ExplicitConnectBegin
    \/ ExplicitConnectFinish
    \/ \E sid \in Targets : Disconnect(sid)
    \/ \E s \in Ids, i \in 1..MaxOps : UnitStart(s, i)
    \/ \E s \in Ids, i \in 1..MaxOps, out \in FnOutcomes : FnFinish(s, i, out)
    \/ ListStep \/ DeleteStep \/ UploadStep \/ PlainDownloadStep
    \/ ListRecursiveStep_ \/ RetryStep

SpecHandlers == Init /\ [][NextHandlers]_vars

\* one download on one session, over every Range header and file size
NextDownload ==
    \/ nextId = 1 /\ ExplicitConnectBegin
    \/ ExplicitConnectFinish
    \/ \E s \in Ids, i \in 1..MaxOps : UnitStart(s, i)
    \/ \E s \in Ids, i \in 1..MaxOps, out \in FnOutcomes : FnFinish(s, i, out)
    \/ reqs = <<>> /\ \E sid \in Targets, range \in RangeInputs, size \in FileSizes :
                         DownloadBegin(sid, range, size)
    \/ DownloadProgress

SpecDownload == Init /\ [][NextDownload]_vars

\* downloads and listings on one session, with the clock of the queue's timeout
NextTransfer ==
    \/ nextId = 1 /\ ExplicitConnectBegin
    \/ ExplicitConnectFinish
    \/ QueueStep
    \/ Advance(DefaultTimeoutMs)
    \/ ListStep
    \/ PlainDownloadStep

SpecTransfer == Init /\ [][NextTransfer]_vars

\* downloads on one session while time passes and the idle sweep runs
NextIdle ==
    \/ nextId = 1 /\ ExplicitConnectBegin
    \/ ExplicitConnectFinish
    \/ QueueStep
    \/ \E d \in AdvanceSteps : Advance(d)
    \/ Sweep
    \/ PlainDownloadStep

SpecIdle == Init /\ [][NextIdle]_vars

\* ------------------------------------------------------------ properties
Units(s) == 1..Len(queue[s])

Started(u) == u.fn \in {"running", "ok", "err"}

FnDone(u) == u.fn \in {"ok", "err"}

PromSettled(u) == u.prom # "pending"

\* C1: on one session, the function of a later runSessionOp call does not begin
\* before the function of every earlier call has finished its backend I/O,
\* whether the earlier call succeeded, failed or exceeded its timeout.
C1_NoInterleavedIO ==
    \A s \in Ids : \A i, j \in Units(s) :
        (i < j /\ Started(queue[s][j])) => FnDone(queue[s][i])

\* the uses of a session's client handle that are in flight: functions of
\* queued units still running, SFTP read streams still open, and the initial
\* listing of connect
RunningUnits(s) == {i \in Units(s) : queue[s][i].fn = "running"}

OpenStreams(s) == {r \in 1..Len(reqs) : reqs[r].sid = s /\ reqs[r].stream = "open"}

InitialLists(s) == {c \in 1..Len(conns) : conns[c].id = s /\ conns[c].pc = "initlist"}

HandleUses(s) ==
    Cardinality(RunningUnits(s)) + Cardinality(OpenStreams(s)) + Cardinality(InitialLists(s))

\* C2: in every reachable state each session's client handle is used by at
\* most one in-flight backend operation, counting the handlers' queued calls,
\* the download transfers of both backends and connect's initial listing.
C2_OneUseOfHandle == \A s \in Ids : HandleUses(s) <= 1

\* C3: operations of one session start in submission order, each only after
\* the promise returned for every earlier one has settled.
C3_FifoStart ==
    \A s \in Ids : \A i, j \in Units(s) :
        (i < j /\ (queue[s][j].fn # "notrun" \/ PromSettled(queue[s][j])))
            => PromSettled(queue[s][i])

\* C3 witness: a second operation runs after the first one's promise was
\* rejected by its timeout
C3_Witness ==
    \E s \in Ids : /\ Len(queue[s]) >= 2
                   /\ queue[s][1].res = "Eoptimeout"
                   /\ queue[s][2].fn = "running"

\* the units of queue[s] that request r enqueued
UnitsOf(s, r) == {i \in Units(s) : queue[s][i].req = r}

\* request b has a unit whose function has begun
Executed(b) ==
    reqs[b].sid \in Ids /\ \E j \in UnitsOf(reqs[b].sid, b) : Started(queue[reqs[b].sid][j])

\* a call of ftpOpWithRetries that has not reached its final outcome: it is
\* waiting out a backoff, or its current attempt has not settled
MidRetry(a) ==
    \/ reqs[a].pc = "backoff"
    \/ reqs[a].pc = "await" /\ ~Settled(a)

C5_TailNeverRejected ==
    \A s \in Ids : \A i \in Units(s) :
        LET u == queue[s][i] IN
        /\ TailState(u) # "rejected"
        /\ u.fn # "skipped"
        /\ u.prom = "rejected" => (Started(u) /\ u.res \in {"Eoptimeout", u.fnRes})

\* C5 witness: one operation failed or timed out and the next one succeeded
C5_Witness ==
    \E s \in Ids : \E i \in Units(s) :
        i > 1 /\ queue[s][i - 1].prom = "rejected" /\ queue[s][i].prom = "fulfilled"

\* C6: the caller of runSessionOp gets fn's value when fn succeeds within the
\* timeout and fn's own error when fn fails within it; the swallowing on the
\* tail does not reach the caller.
C6_CallerSeesOutcome ==
    \A r \in 1..Len(reqs) :
        (reqs[r].kind \in {"list", "delete"} /\ reqs[r].pc = "done" /\ reqs[r].unit # 0) =>
            LET u == queue[reqs[r].sid][reqs[r].unit] IN
            /\ reqs[r].got = u.res
            /\ u.res # "Eoptimeout" => reqs[r].got = u.fnRes
            /\ (u.fn = "ok" /\ u.res # "Eoptimeout") => reqs[r].status = 200
            /\ (u.fn = "err" /\ u.res # "Eoptimeout") =>
                  (reqs[r].status = 500 /\ reqs[r].err = u.fnRes)

\* C6 witness: a caller has received the error its own function failed with
C6_Witness ==
    \E r \in 1..Len(reqs) :
        /\ reqs[r].kind \in {"list", "delete"} /\ reqs[r].pc = "done" /\ reqs[r].unit # 0
        /\ reqs[r].err = "Efatal"
        /\ queue[reqs[r].sid][reqs[r].unit].fnRes = "Efatal"

\* C7: every operation that names a session id absent from the registry fails
\* with the session-expired error (an upload is counted when it carried a file,
\* so that the missing session is the only thing wrong with it).
C7_AbsentIsExpired ==
    \A r \in 1..Len(reqs) :
        (/\ reqs[r].kind # "disconnect"
         /\ reqs[r].pc = "done" /\ reqs[r].unit = 0
         /\ reqs[r].kind = "upload" => reqs[r].tmp)
            => reqs[r].err = "Session expired"

\* no disconnect request has named this id
NeverDisconnected(id) ==
    \A r \in 1..Len(reqs) : ~(reqs[r].kind = "disconnect" /\ reqs[r].sid = id)

\* C8: a sweep tick removes from the registry, and closes the handle of, every
\* session idle for more than 30 minutes at the tick, and leaves every session
\* idle for at most 30 minutes in the registry with its handle as it was.
C8_SweepEvictsIdle ==
    [][Sweep =>
         \A id \in sessions :
            IF now - sess[id].lastActivity > 30 * 60 * 1000
            THEN id \notin sessions' /\ ~handle'[id].open
            ELSE id \in sessions' /\ handle'[id] = handle[id]]_vars

\* C8 witness: a session that only the sweep can have removed (its handle emits
\* no signals and nobody disconnected it) is gone and closed, while a session
\* idle for exactly 30 minutes is still registered with its handle open
C8_Witness ==
    \E a, b \in Ids :
        /\ a # b
        /\ sess[a].type # "none" /\ a \notin sessions /\ ~handle[a].open
        /\ ~handle[a].hasOn /\ NeverDisconnected(a)
        /\ now - sess[a].lastActivity > 30 * 60 * 1000
        /\ b \in sessions /\ handle[b].open
        /\ now - sess[b].lastActivity = 30 * 60 * 1000

\* C9: whenever a connect request has finished with a non-success response
\* (400, 502 or 500), the registry holds no session for the id generated for
\* that request.
C9_FailedConnectLeavesNoSession ==
    \A c \in 1..Len(conns) :
        (conns[c].pc = "done" /\ conns[c].status \in {400, 502, 500})
            => conns[c].id \notin sessions

\* C10: an error, close or end signal of a session's handle removes that id
\* from the registry and closes the handle, also when the id is already gone,
\* and touches no other session.
C10_SignalEvicts ==
    [][\A id \in Ids :
          (\E sig \in {"error", "close", "end"} : Signal(id, sig)) =>
              /\ id \notin sessions'
              /\ ~handle'[id].open
              /\ sessions' = sessions \ {id}
              /\ \A o \in Ids \ {id} : handle'[o] = handle[o]]_vars

\* C10 witness: before any time has passed, a session whose handle emits
\* signals is gone and closed without a disconnect, and another session is
\* still registered
C10_Witness ==
    \E a, b \in Ids :
        /\ a # b /\ now = 0
        /\ sess[a].type # "none" /\ handle[a].hasOn /\ NeverDisconnected(a)
        /\ a \notin sessions /\ ~handle[a].open
        /\ b \in sessions /\ handle[b].open

\* C11: disconnect always answers success; for an id in the registry it closes
\* the handle and removes the id, for any other id it changes neither registry
\* nor handles; the id is absent afterwards, so a second disconnect is the
\* no-op case with the same registry and the same response.
C11_DisconnectIdempotent ==
    [][\A sid \in Targets \cup Ids :
          Disconnect(sid) =>
              /\ reqs'[Len(reqs')].status = 200
              /\ reqs'[Len(reqs')].pc = "done"
              /\ sid \notin sessions'
              /\ sessions' = sessions \ {sid}
              /\ sid \in sessions =>
                    (~handle'[sid].open /\ \A o \in Ids \ {sid} : handle'[o] = handle[o])
              /\ sid \notin sessions => (sessions' = sessions /\ handle' = handle)]_vars

\* C11 witness: the same issued id was disconnected twice, both answered
\* success, and the session is gone with its handle closed
C11_Witness ==
    /\ Len(reqs) = 2
    /\ reqs[1].kind = "disconnect" /\ reqs[2].kind = "disconnect"
    /\ reqs[1].sid = reqs[2].sid /\ reqs[1].sid \in Ids
    /\ reqs[1].status = 200 /\ reqs[2].status = 200
    /\ sess[reqs[1].sid].type # "none"
    /\ reqs[1].sid \notin sessions /\ ~handle[reqs[1].sid].open

\* the probes of a connect request whose client is in use: the one being
\* awaited, and failed ones whose client was not closed
ProbesInFlight(cn) ==
    (IF cn.pc \in {"probe_sftp", "probe_ftp"} THEN 1 ELSE 0)
    + Cardinality({i \in 1..Len(cn.probes) : ~cn.probes[i].ok /\ ~cn.probes[i].closed})

\* C12: a connect naming 'ftp' or 'sftp' makes exactly one probe, of the named
\* protocol; when that probe fails the request ends with 502 carrying the
\* probe's error, no other probe is made and no session is created for it.
C12_ExplicitProtocolOnly ==
    \A c \in 1..Len(conns) :
        LET cn == conns[c] IN
        cn.proto \in {"ftp", "sftp"} =>
            /\ Len(cn.probes) <= 1
            /\ \A i \in 1..Len(cn.probes) : cn.probes[i].proto = cn.proto
            /\ cn.pc \in {"probe_sftp", "probe_ftp"} =>
                  (cn.probes = <<>> /\ cn.pc = IF cn.proto = "ftp" THEN "probe_ftp" ELSE "probe_sftp")
            /\ cn.pc \in {"initlist", "done"} => Len(cn.probes) = 1
            /\ (Len(cn.probes) = 1 /\ ~cn.probes[1].ok) =>
                  /\ cn.pc = "done" /\ cn.status = 502
                  /\ cn.err = cn.probes[1].err /\ cn.err \in ProbeErrors
                  /\ sess[cn.id].type = "none" /\ cn.id \notin sessions

\* C12 witness: an explicit sftp connect ended with 502 after one failed sftp
\* probe whose error would have triggered the fallback in auto-detect
C12_Witness ==
    \E c \in 1..Len(conns) :
        /\ conns[c].proto = "sftp" /\ conns[c].port = 21
        /\ conns[c].pc = "done" /\ conns[c].status = 502 /\ conns[c].err = "ErrBanner"
        /\ Len(conns[c].probes) = 1 /\ conns[c].probes[1].proto = "sftp"
        /\ sess[conns[c].id].type = "none"

\* C13: in auto-detect with port 21, a failed sftp probe has closed its client
\* before the single ftp probe starts, at most one probe is in flight at any
\* time, at most one probe of each protocol is made, sftp first, and a session
\* created after the sftp probe failed has type 'ftp'.
C13_AutoDetectSequential ==
    \A c \in 1..Len(conns) :
        LET cn == conns[c] IN
        (cn.proto = "auto" /\ cn.port = 21) =>
            /\ ProbesInFlight(cn) <= 1
            /\ Len(cn.probes) <= 2
            /\ Len(cn.probes) >= 1 => cn.probes[1].proto = "sftp"
            /\ Len(cn.probes) = 2 => (cn.probes[2].proto = "ftp" /\ ~cn.probes[1].ok)
            /\ cn.pc = "probe_sftp" => cn.probes = <<>>
            /\ cn.pc = "probe_ftp" =>
                  (Len(cn.probes) = 1 /\ ~cn.probes[1].ok /\ cn.probes[1].closed)
            /\ (Len(cn.probes) = 1 /\ ~cn.probes[1].ok) => cn.pc = "probe_ftp"
            /\ (Len(cn.probes) = 2 /\ cn.probes[2].ok) =>
                  (sess[cn.id].type = "ftp" /\ cn.pc \in {"initlist", "done"})

\* C13 witness: an auto-detect connect on port 21 succeeded after the sftp
\* probe was refused with a non-SSH banner and the ftp probe was accepted
C13_Witness ==
    \E c \in 1..Len(conns) :
        /\ conns[c].proto = "auto" /\ conns[c].port = 21
        /\ conns[c].pc = "done" /\ conns[c].status = 200
        /\ Len(conns[c].probes) = 2
        /\ conns[c].probes[1].err = "ErrBanner" /\ conns[c].probes[1].closed
        /\ conns[c].probes[2].ok
        /\ sess[conns[c].id].type = "ftp"

\* the decimal digits of a natural number, as a client writes them in a header
RECURSIVE Digits(_)
Digits(n) ==
    IF n < 10 THEN <<DigitChars[n + 1]>>
    ELSE Digits(n \div 10) \o <<DigitChars[(n % 10) + 1]>>

\* C14: once the size N is known, a request with Range bytes=s-e, 0 <= s <= e
\* < N, gets status 206, Content-Range s-e/N and Content-Length e - s + 1; with
\* bytes=s- the end is N - 1; without a Range header it gets status 200 and
\* Content-Length N; a download that ends without error keeps that status.
C14_RangeHeaders ==
    \A r \in 1..Len(reqs) :
        LET rq == reqs[r]
            N == rq.size
        IN  (rq.kind = "download" /\ rq.hdr.status # 0) =>
            /\ rq.range = NoRange =>
                  rq.hdr = [status |-> 200, contentRange |-> <<>>, contentLength |-> N]
            /\ \A s \in 0..(N - 1) : \A e \in s..(N - 1) :
                  rq.range = <<"bytes=">> \o Digits(s) \o <<"-">> \o Digits(e) =>
                      rq.hdr = [status |-> 206, contentRange |-> <<s, e, N>>,
                                contentLength |-> e - s + 1]
            /\ \A s \in 0..(N - 1) :
                  rq.range = <<"bytes=">> \o Digits(s) \o <<"-">> =>
                      rq.hdr = [status |-> 206, contentRange |-> <<s, N - 1, N>>,
                                contentLength |-> N - s]
            /\ (rq.err = "none" /\ rq.pc \in {"stream", "transfer", "done"}) =>
                  rq.status = rq.hdr.status

\* C14 witness: a download of bytes 1-2 of a 3-byte file has ended without
\* error as 206 with Content-Length 2, on an FTP session
C14_Witness ==
    \E r \in 1..Len(reqs) :
        /\ reqs[r].kind = "download" /\ reqs[r].pc = "done" /\ reqs[r].err = "none"
        /\ reqs[r].range = <<"bytes=", "1", "-", "2">> /\ reqs[r].size = 3
        /\ reqs[r].status = 206 /\ reqs[r].hdr.contentLength = 2
        /\ sess[reqs[r].sid].type = "ftp"

\* a Range header the file cannot satisfy: no numeric start, no numeric end,
\* start after end, or start at or beyond the size
InvalidRange(range, fileSize) ==
    /\ range # NoRange
    /\ \/ RangeStart(range) = NaN
       \/ RangeEnd(range, fileSize) = NaN
       \/ RangeStart(range) > RangeEnd(range, fileSize)
       \/ RangeStart(range) >= fileSize

\* C15: a download whose Range header is invalid places no operation on the
\* session's queue and is never given status 206.
C15_InvalidRangeRejected ==
    \A r \in 1..Len(reqs) :
        (reqs[r].kind = "download" /\ InvalidRange(reqs[r].range, reqs[r].size)) =>
            /\ reqs[r].unit = 0
            /\ reqs[r].hdr.status # 206
            /\ reqs[r].status # 206

\* C16: on an FTP session the download transfer is one queued unit: while its
\* function runs no other unit's function has begun and not finished, and it
\* begins only after the function of every earlier unit has finished; on an
\* SFTP session no transfer unit is queued and the stream is opened directly.
C16_FtpTransferExclusive ==
    /\ \A s \in Ids : \A i \in Units(s) :
          queue[s][i].op = "transfer" =>
              /\ sess[s].type = "ftp"
              /\ \A j \in Units(s) :
                    /\ (j < i /\ Started(queue[s][i])) => FnDone(queue[s][j])
                    /\ (j > i /\ Started(queue[s][j])) => FnDone(queue[s][i])
    /\ \A r \in 1..Len(reqs) :
          reqs[r].stream # "none" => sess[reqs[r].sid].type = "sftp"

\* C17: on an SFTP session, once the client-facing response has closed, no
\* upstream read stream of that request is left open: a stream open at the
\* close is destroyed by it, and none stays open after it.
C17_ClosedResponseLeavesNoStream ==
    \A r \in 1..Len(reqs) :
        (reqs[r].kind = "download" /\ reqs[r].resClosed) => reqs[r].stream # "open"

\* C18: after an upload request that carried a file has been answered, its
\* temporary file no longer exists.
C18_TempFileRemoved ==
    \A r \in 1..Len(reqs) :
        (reqs[r].kind = "upload" /\ reqs[r].pc = "done") => ~reqs[r].tmp

\* the attempts of a call of ftpOpWithRetries that were rejected
FailedAttempts(a) ==
    {i \in UnitsOf(reqs[a].sid, a) : queue[reqs[a].sid][i].prom = "rejected"}

\* C19: a call of ftpOpWithRetries that returns a value after k transient
\* failures (k <= retries) has made exactly k + 1 attempts and has waited
\* 2000 x 1, ..., 2000 x k ms before the re-attempts; a call whose first
\* attempt fails with a non-transient error makes exactly 1 attempt and throws
\* that error.
C19_RetrySchedule ==
    \A a \in 1..Len(reqs) :
        (reqs[a].kind = "retry" /\ reqs[a].unit # 0) =>
            LET rq == reqs[a]
                s == rq.sid
                mine == UnitsOf(s, a)
                k == Len(rq.delays)
            IN  /\ k <= rq.retries
                /\ \A n \in 1..k : rq.delays[n] = 2000 * n
                /\ (rq.pc = "done" /\ rq.err = "none") =>
                      /\ rq.got = "value"
                      /\ Cardinality(FailedAttempts(a)) = k
                      /\ Cardinality(mine) = k + 1
                      /\ \A i \in FailedAttempts(a) :
                            queue[s][i].res \in {"Etransient", "Eoptimeout"}
                      /\ queue[s][rq.unit].prom = "fulfilled"
                /\ (rq.pc = "done" /\ rq.err = "Efatal" /\ k = 0) =>
                      (Cardinality(mine) = 1 /\ rq.got = "Efatal")
                /\ (rq.pc = "done" /\ Cardinality(mine) >= 1
                       /\ \E i \in mine : (\A j \in mine : i <= j) /\ queue[s][i].res = "Efatal"
                                             /\ queue[s][i].prom = "rejected") =>
                      (Cardinality(mine) = 1 /\ rq.err = "Efatal")

\* C19 witness: a call with retries = 2 has returned the value of its third
\* attempt after two transient failures and waits of 2000 and 4000 ms
C19_Witness ==
    \E a \in 1..Len(reqs) :
        /\ reqs[a].kind = "retry" /\ reqs[a].pc = "done" /\ reqs[a].got = "value"
        /\ reqs[a].delays = <<2000, 4000>>
        /\ Cardinality(UnitsOf(reqs[a].sid, a)) = 3
        /\ \E i \in FailedAttempts(a) : queue[reqs[a].sid][i].fnRes = "Etransient"

\* the units a request enqueued for the backend call it is waiting for or
\* was answered from
AttemptsOfCall(r) ==
    {i \in UnitsOf(reqs[r].sid, r) :
        queue[reqs[r].sid][i].op = queue[reqs[r].sid][reqs[r].unit].op}

\* C20: a list, download, upload or delete on an FTP session that is answered
\* with a transient backend error has been attempted more than once, and the
\* same request on an SFTP session is attempted once.
C20_FtpRequestsRetried ==
    \A r \in 1..Len(reqs) :
        (reqs[r].kind \in {"list", "download", "upload", "delete"} /\ reqs[r].unit # 0) =>
            /\ (sess[reqs[r].sid].type = "ftp" /\ reqs[r].pc = "done"
                   /\ reqs[r].err = "Etransient") => Cardinality(AttemptsOfCall(r)) > 1
            /\ sess[reqs[r].sid].type = "sftp" => Cardinality(AttemptsOfCall(r)) = 1

\* the directories of tree t at and under p, and its non-directory entries
RECURSIVE DirsUnder(_, _)
DirsUnder(t, p) ==
    {p} \cup UNION {DirsUnder(t, Append(p, DirEntries(t, p)[i].name)) :
                        i \in {k \in 1..Len(DirEntries(t, p)) : DirEntries(t, p)[k].dir}}

Leaves(t) ==
    UNION {{[name |-> DirEntries(t, d)[i].name, isDirectory |-> FALSE,
             path |-> Append(d, DirEntries(t, d)[i].name)] :
               i \in {k \in 1..Len(DirEntries(t, d)) : ~DirEntries(t, d)[k].dir}} :
           d \in DirsUnder(t, RootPath)}

\* the directories of tree t in depth-first order from p
RECURSIVE Preorder(_, _), PreorderFrom(_, _, _)
Preorder(t, p) == <<p>> \o PreorderFrom(t, p, 1)
PreorderFrom(t, p, i) ==
    IF i > Len(DirEntries(t, p)) THEN <<>>
    ELSE (IF DirEntries(t, p)[i].dir THEN Preorder(t, Append(p, DirEntries(t, p)[i].name))
          ELSE <<>>) \o PreorderFrom(t, p, i + 1)

\* C21: a list-recursive that succeeds returns exactly the non-directory
\* entries of the tree, each once, with isDirectory false and the path joined
\* from its directory and name; its list calls are queued units, one unsettled
\* at a time, over the directories in depth-first order.
C21_RecursiveListing ==
    \A r \in 1..Len(reqs) :
        (reqs[r].kind = "listrec" /\ reqs[r].unit # 0) =>
            LET rq == reqs[r]
                mine == UnitsOf(rq.sid, r)
                dfs == Preorder(rq.tree, RootPath)
            IN  /\ \A i \in 1..Len(rq.files) : rq.files[i] \in Leaves(rq.tree)
                /\ \A i, j \in 1..Len(rq.files) : rq.files[i] = rq.files[j] => i = j
                /\ Len(rq.listed) <= Len(dfs)
                /\ rq.listed = SubSeq(dfs, 1, Len(rq.listed))
                /\ Cardinality(mine) = Len(rq.listed)
                /\ \A i \in mine : queue[rq.sid][i].op = "list"
                /\ Cardinality({i \in mine : ~PromSettled(queue[rq.sid][i])}) <= 1
                /\ (rq.pc = "done" /\ rq.status = 200) =>
                      /\ {rq.files[i] : i \in 1..Len(rq.files)} = Leaves(rq.tree)
                      /\ rq.listed = dfs

\* C21 witness: the tree with nested directories has been listed to the end
\* and its three files returned, the deepest first
C21_Witness ==
    \E r \in 1..Len(reqs) :
        /\ reqs[r].kind = "listrec" /\ reqs[r].pc = "done" /\ reqs[r].status = 200
        /\ reqs[r].tree = 1 /\ Len(reqs[r].files) = 3
        /\ reqs[r].files[1].path = <<"a", "b", "f3">>
        /\ reqs[r].listed = <<RootPath, <<"a">>, <<"a", "b">> >>

\* C22: a session keeps the client it was created with; while it exists no
\* probe is in flight for its id and exactly one probe has ever succeeded for
\* it, whatever operations, retries and failures follow; and its record holds
\* neither the password nor the port given to connect.
C22_NoReconnectNoCredentials ==
    \A id \in Ids :
        sess[id].type # "none" =>
            /\ handle[id].client = id
            /\ sess[id].stored \cap {"password", "port"} = {}
            /\ Cardinality({c \in 1..Len(conns) : conns[c].id = id}) = 1
            /\ \A c \in 1..Len(conns) :
                  conns[c].id = id =>
                      /\ conns[c].pc \notin {"probe_sftp", "probe_ftp"}
                      /\ Cardinality({i \in 1..Len(conns[c].probes) : conns[c].probes[i].ok}) = 1

\* C22 witness: on an FTP session, whose connect passed password and port, a
\* retried operation has failed transiently and been attempted again
C22_Witness ==
    \E r \in 1..Len(reqs) :
        /\ reqs[r].kind = "retry" /\ reqs[r].attempt >= 1 /\ reqs[r].sid \in sessions
        /\ sess[reqs[r].sid].type = "ftp"
        /\ {"password", "port"} \subseteq CreateSessionOptions(sess[reqs[r].sid].type)
        /\ handle[reqs[r].sid].client = reqs[r].sid
        /\ \E i \in FailedAttempts(r) : queue[reqs[r].sid][i].fnRes = "Etransient"

\* C23: when the process has exited on the termination signal, the close of
\* every session in the registry has been invoked, also of those coming after
\* a session whose close threw.
C23_AllClosedBeforeExit ==
    exited => \A id \in sessions : handle[id].closeCalled

\* C23 witness: the process has exited with two sessions registered; the close
\* of the first threw and left its handle open, the second was still closed
C23_Witness ==
    /\ exited /\ sessions = {1, 2}
    /\ handle[1].closeCalled /\ handle[1].open
    /\ handle[2].closeCalled /\ ~handle[2].open

\* C24: in auto-detect, after the sftp probe has failed, an ftp probe is made
\* exactly when the error indicates a non-SSH endpoint or a port other than 22
\* was requested; with the port omitted and any other error the request ends
\* with 502 and the sftp error after the one sftp probe.
C24_FallbackIff ==
    \A c \in 1..Len(conns) :
        LET cn == conns[c] IN
        (cn.proto = "auto" /\ Len(cn.probes) >= 1 /\ ~cn.probes[1].ok) =>
            LET nonSsh == cn.probes[1].err = "ErrBanner"
                otherPort == cn.port # Undefined /\ cn.port # 22
                ftpProbed == cn.pc = "probe_ftp" \/ Len(cn.probes) >= 2
            IN  /\ ftpProbed <=> (nonSsh \/ otherPort)
                /\ (cn.port = Undefined /\ ~nonSsh) =>
                      (cn.pc = "done" /\ cn.status = 502 /\ cn.err = cn.probes[1].err)

\* C25: a call of ftpOpWithRetries makes at most retries + 1 attempts (4 with
\* the default); it waits only between attempts, never after the last one;
\* when all retries + 1 attempts have failed it throws the error of the last.
C25_AttemptsBounded ==
    \A a \in 1..Len(reqs) :
        (reqs[a].kind = "retry" /\ reqs[a].unit # 0) =>
            LET rq == reqs[a]
                mine == UnitsOf(rq.sid, a)
            IN  /\ Cardinality(mine) <= rq.retries + 1
                /\ rq.retries = 3 => Cardinality(mine) <= 4
                /\ Len(rq.delays) <= rq.retries
                /\ rq.pc = "backoff" => Cardinality(mine) <= rq.retries
                /\ (rq.pc = "done" /\ Cardinality(mine) = rq.retries + 1) =>
                      Len(rq.delays) = rq.retries
                /\ (rq.pc = "done" /\ Cardinality(mine) = rq.retries + 1
                       /\ Cardinality(FailedAttempts(a)) = rq.retries + 1) =>
                      (rq.err = queue[rq.sid][rq.unit].res /\ \A i \in mine : i <= rq.unit)

\* C25 witness: with the default retries = 3, four attempts have failed, the
\* first with a transient backend error and the fourth by timing out, and the
\* call has thrown the timeout error of the fourth
C25_Witness ==
    \E a \in 1..Len(reqs) :
        /\ reqs[a].kind = "retry" /\ reqs[a].retries = 3 /\ reqs[a].pc = "done"
        /\ reqs[a].sid \in Ids
        /\ Cardinality(FailedAttempts(a)) = 4
        /\ reqs[a].delays = <<2000, 4000, 6000>>
        /\ reqs[a].err = "Eoptimeout"
        /\ \E i \in FailedAttempts(a) : queue[reqs[a].sid][i].res = "Etransient"

\* C26: when an attempt of ftpOpWithRetries has failed and the session is no
\* longer in the registry, the call ends at once with that error and enqueues
\* nothing more, whatever the error and the attempts left; an attempt due on
\* an id that is not in the registry ends the call with the session-expired
\* error without enqueuing anything.
C26_StopsWhenSessionGone ==
    [][/\ \A r \in 1..MaxReqs :
            /\ (RetryAfterAttempt(r) /\ Awaited(r).state = "rejected"
                   /\ reqs[r].sid \notin sessions) =>
                  (reqs'[r].pc = "done" /\ reqs'[r].err = Awaited(r).res /\ queue' = queue)
            /\ (RetryBackoffDone(r) /\ reqs[r].sid \notin sessions) =>
                  (reqs'[r].pc = "done" /\ reqs'[r].err = "Session expired" /\ queue' = queue)
       /\ \A sid \in Targets :
            (RetryBegin(sid, DefaultRetries) /\ sid \notin sessions) =>
                (reqs'[Len(reqs')].pc = "done" /\ reqs'[Len(reqs')].err = "Session expired"
                 /\ queue' = queue)]_vars

\* C26 witness: a call with three retries left has thrown the transient error
\* of its first attempt, because the session was evicted during that attempt
C26_Witness ==
    \E a \in 1..Len(reqs) :
        /\ reqs[a].kind = "retry" /\ reqs[a].pc = "done" /\ reqs[a].err = "Etransient"
        /\ reqs[a].attempt = 0 /\ reqs[a].retries = 3
        /\ reqs[a].sid \in Ids /\ reqs[a].sid \notin sessions
        /\ Cardinality(UnitsOf(reqs[a].sid, a)) = 1

\* C27: for a ranged download with 0 <= start <= end < size, the bytes asked
\* of the backend are exactly start..end on both backends, as many as the
\* Content-Length of the 206 response.
C27_BackendIntervalExact ==
    \A r \in 1..Len(reqs) :
        LET rq == reqs[r] IN
        (/\ rq.kind = "download" /\ rq.span # <<>> /\ rq.range # NoRange
         /\ ~InvalidRange(rq.range, rq.size) /\ RangeEnd(rq.range, rq.size) < rq.size) =>
            /\ rq.span = <<RangeStart(rq.range), RangeEnd(rq.range, rq.size)>>
            /\ rq.span[2] - rq.span[1] + 1 = rq.hdr.contentLength

\* C28: every operation submitted with runSessionOp eventually settles, also
\* when no function ever returns; an operation whose function is running is
\* never pending beyond its timeout, which is the session's 120000 ms.
C28_EverySubmittedSettles ==
    /\ [](\A s \in Ids : \A i \in Units(s) :
            /\ queue[s][i].timeoutMs = 120000
            /\ (queue[s][i].fn = "running" /\ queue[s][i].prom = "pending") =>
                  now <= queue[s][i].startedAt + queue[s][i].timeoutMs
            /\ queue[s][i].res = "Eoptimeout" =>
                  now >= queue[s][i].startedAt + queue[s][i].timeoutMs)
    /\ \A s \in Ids : \A i \in 1..MaxOps :
          (i <= Len(queue[s])) ~> (i <= Len(queue[s]) /\ PromSettled(queue[s][i]))

\* C28 witness: an operation whose function never returned was rejected by its
\* timeout, and the operation queued behind it has run and succeeded
C28_Witness ==
    \E s \in Ids :
        /\ Len(queue[s]) >= 2
        /\ queue[s][1].res = "Eoptimeout" /\ queue[s][1].fn = "running"
        /\ queue[s][2].prom = "fulfilled"

\* C29: once a session has left the registry, no operation waiting in its
\* queue begins executing its function: a unit that gets its turn on a removed
\* session fails without its function being called.
C29_NoStartAfterRemoval ==
    [][\A s \in Ids : \A i \in 1..MaxOps :
          (UnitStart(s, i) /\ s \notin sessions) => queue'[s][i].fn # "running"]_vars

\* a transfer on the session is still in progress: an SFTP read stream opened
\* by a download is open, or the function of a queued FTP transfer is running
TransferInProgress(id) ==
    \/ \E r \in 1..Len(reqs) :
          reqs[r].kind = "download" /\ reqs[r].sid = id /\ reqs[r].stream = "open"
    \/ \E i \in 1..Len(queue[id]) :
          queue[id][i].op = "transfer" /\ queue[id][i].fn = "running"

\* C30: the idle sweep never evicts a session while a transfer on it is still
\* in progress: a session with an open SFTP download stream, or with an FTP
\* transfer still running in a queued operation, stays in the registry at
\* every sweep tick.
C30_SweepSparesTransfers ==
    [][Sweep => \A id \in sessions : TransferInProgress(id) => id \in sessions']_vars

====
